---- MODULE Spec2Model ----
(***************************************************************************)
(* Model of src/b.py: the analytics engine analyze_loan and the script     *)
(* code around it.                                                         *)
(*                                                                         *)
(* Numbers.  The month cells are cast with astype(float), so a DPD value   *)
(* is a float.  A DPD value is modelled as an integer count of 1/Scale     *)
(* days (Scale = 2: 179 is 89.5 days), which keeps int(), >= 90 and the    *)
(* sums exact.  A Rolling_3M value, a mean of three such values, is an     *)
(* integer count of 1/(3*Scale) days.  A missing cell (NaN) is Absent.     *)
(* The Value column of the metrics table holds the strings the f-strings   *)
(* of the source build.                                                    *)
(***************************************************************************)
EXTENDS Integers, Sequences, FiniteSets, TLC

VARIABLES
    row,        \* the row handed to analyze_loan, as it is after the call
    months,     \* the months index handed to analyze_loan, after the call
    arg,        \* history: <<row, months>> as they were when the call began
    df,         \* first DataFrame returned by the last call
    metrics,    \* second DataFrame returned by the last call
    prev,       \* history: << >> or <<c>>, c an earlier call with its result
    pc,         \* "call": about to call analyze_loan; "return": it returned
    tenure,     \* len(active_dpd) of a density computation
    delinquent, \* (active_dpd > 0).sum() of a density computation
    density,    \* tenths of a percent printed by the :.1% format, -1 before
    peak,       \* max_d of a tier computation, in 1/Scale days
    bucket,     \* the Sticky Bucket string computed for peak, "" before
    classified, \* history: << >> or <<c>>, c an earlier peak with its bucket
    raw_data,   \* the rows of the uploaded file, in file order
    codes,      \* raw_data.iloc[:, 0].unique()
    pos,        \* number of codes the loop over the accounts has passed
    sheets,     \* the sheets of the Excel writer: <<name, table>> pairs
    story,      \* the blocks build_pdf appended to the bulk PDF story
    error,      \* the exception that ended the script run, "" when none
    analysed,   \* history: the calls of analyze_loan the loop made, in order
    session_state,  \* st.session_state: a function from its keys to values
    username_input, \* the value of the Username text input of the login page
    password_input, \* the value of the Password text input of the login page
    run         \* history: the last script run, what caused it and what it did

vars == <<row, months, arg, df, metrics, prev, pc, tenure, delinquent, density,
          peak, bucket, classified, raw_data, codes, pos, sheets, story, error,
          analysed, session_state, username_input, password_input, run>>

analysisVars == <<row, months, arg, df, metrics, prev, pc>>
densityVars == <<tenure, delinquent, density>>
tierVars == <<peak, bucket, classified>>
batchVars == <<raw_data, codes, pos, sheets, story, error, analysed>>
authVars == <<session_state, username_input, password_input, run>>

---------------------------------------------------------------------------
(* Bounds of the model *)

MaxMonths == 4      \* month columns of a row in Spec
HistMonths == 4     \* month columns of a row in SpecHistory
MaxAccounts == 2    \* rows of an uploaded file in SpecBatch
MaxTenure == 1003   \* longest active window in SpecDensity
MaxDays == 100      \* largest peak DPD, in days, in SpecTier

---------------------------------------------------------------------------
(* Values *)

Scale == 2
Absent == -1
None == "None"

\* 0, 0.5, 30, 89.5 and 90 days
DPDValues == {0, 1, 30 * Scale, 90 * Scale - 1, 90 * Scale}
Cells == DPDValues \cup {Absent}

MonthLabel(k) == "M" \o ToString(k)
MonthIndex(n) == [k \in 1..n |-> MonthLabel(k)]

\* pd.DataFrame(): no columns, no rows
EmptyDataFrame == [columns |-> << >>, data |-> << >>]

RECURSIVE SumSeq(_)
SumSeq(s) == IF s = << >> THEN 0 ELSE Head(s) + SumSeq(Tail(s))

RECURSIVE MaxSeq(_)
MaxSeq(s) == IF Len(s) = 1 THEN s[1]
             ELSE LET m == MaxSeq(Tail(s)) IN IF s[1] >= m THEN s[1] ELSE m

Repeat(x, n) == [k \in 1..n |-> x]

---------------------------------------------------------------------------
(* pandas operations used by analyze_loan *)

\* row[months].astype(object): a new Series of the month cells
SelectMonths(r, m) == [k \in 1..Len(m) |-> r.cells[k]]

HasValid(s) == \E k \in 1..Len(s) : s[k] # Absent

first_valid_index(s, index) ==
    IF ~HasValid(s) THEN None
    ELSE index[CHOOSE k \in 1..Len(s) :
                  s[k] # Absent /\ \A j \in 1..(k - 1) : s[j] = Absent]

last_valid_index(s, index) ==
    IF ~HasValid(s) THEN None
    ELSE index[CHOOSE k \in 1..Len(s) :
                  s[k] # Absent /\ \A j \in (k + 1)..Len(s) : s[j] = Absent]

\* Index.get_loc: the 0-based position of a label
get_loc(index, label) == (CHOOSE k \in 1..Len(index) : index[k] = label) - 1

\* Series.fillna(0): a new Series
fillna0(s) == [k \in 1..Len(s) |-> IF s[k] = Absent THEN 0 ELSE s[k]]

\* Series.iloc[a:b], a and b 0-based, b exclusive
iloc(s, a, b) == SubSeq(s, a + 1, b)

\* Slip: rolling(3, min_periods=1), the first two rows carry what there is.
rolling3_partial(s) ==
    [k \in 1..Len(s) |->
        IF k = 1 THEN s[1] ELSE IF k = 2 THEN s[1] + s[2]
        ELSE s[k - 2] + s[k - 1] + s[k]]

\* Series.rolling(3).mean().fillna(0): NaN, hence 0, for the first two rows
rolling3(s) ==
    [k \in 1..Len(s) |-> IF k < 3 THEN 0 ELSE s[k - 2] + s[k - 1] + s[k]]

---------------------------------------------------------------------------
(* The lines of analyze_loan *)

start_pos(dpd, m) == get_loc(m, first_valid_index(dpd, m))

end_pos(dpd, m) == get_loc(m, last_valid_index(dpd, m))

\* Slip: the slice is taken, the missing cells are left as they are.
active_dpd_unfilled(dpd, sp, ep) == iloc(dpd, sp, ep + 1)

active_dpd(dpd, sp, ep) == fillna0(iloc(dpd, sp, ep + 1))

\* Slip: the statistics are taken over the whole zero-filled series.
ActiveSeriesWhole(r, m) == fillna0(SelectMonths(r, m))

\* The Series active_dpd that analyze_loan builds for a row with a valid cell
ActiveSeries(r, m) ==
    LET dpd == SelectMonths(r, m)
    IN  active_dpd(dpd, start_pos(dpd, m), end_pos(dpd, m))

\* Slip: the last Active month is counted as Settled.
status_short(sp, ep, n) ==
    Repeat("Not Disbursed", sp)
        \o Repeat("Active", ep - sp)
        \o Repeat("Settled", n - ep)

status(sp, ep, n) ==
    Repeat("Not Disbursed", sp)
        \o Repeat("Active", ep - sp + 1)
        \o Repeat("Settled", n - 1 - ep)

\* Slip: <= for <, so a series that ends on its last valid month is Settled.
loan_status_le(ep, n) == IF ep <= n - 1 THEN "Settled" ELSE "Active"

loan_status(ep, n) == IF ep < n - 1 THEN "Settled" ELSE "Active"

active_tenure(active) == ToString(Len(active)) \o " Months"

\* The tenths of a percent in 1: :.1% prints x * 100 to one decimal
TenthsInOne == 100 * 10

\* Slip: the tenths of a percent are cut off, not rounded.
PercentTenthsCut(c, n) == (TenthsInOne * c) \div n

\* f"{x:.1%}" of x = c/n: the tenths of a percent printed, the quotient
\* rounded half to even
PercentTenths(c, n) ==
    LET q == (TenthsInOne * c) \div n
        r == (TenthsInOne * c) % n
    IN  IF 2 * r > n \/ (2 * r = n /\ q % 2 = 1) THEN q + 1 ELSE q

\* What the format can print for the float c/n.  The format rounds the
\* float's own value half to even; a quotient exactly half way between two
\* tenths is a float only when it is a multiple of 1/16, and otherwise the
\* float nearest to it lies on one side or the other.  (No such quotient has
\* n < 80.)
PercentOutcomes(c, n) ==
    LET q == (TenthsInOne * c) \div n
        r == (TenthsInOne * c) % n
    IN  IF 2 * r = n /\ (16 * c) % n # 0 THEN {q, q + 1}
        ELSE {PercentTenths(c, n)}

PercentString(d) == ToString(d \div 10) \o "." \o ToString(d % 10) \o "%"

CountDelinquent(active) == Cardinality({k \in 1..Len(active) : active[k] > 0})

delinquency_density(active) ==
    PercentString(PercentTenths(CountDelinquent(active), Len(active)))

\* int(x) of a float x >= 0
IntOf(x) == x \div Scale

maximum_dpd(max_d) == ToString(IntOf(max_d)) \o " Days"

\* Slip: > for >=, so a peak of exactly 30 or 90 days falls a tier.
sticky_bucket_gt(max_d) ==
    IF max_d > 90 * Scale THEN "90+"
    ELSE IF max_d > 30 * Scale THEN "30-89"
    ELSE "0-29"

\* Slip: the labels of the two lower tiers are exchanged.
sticky_bucket_swapped(max_d) ==
    IF max_d >= 90 * Scale THEN "90+"
    ELSE IF max_d >= 30 * Scale THEN "0-29"
    ELSE "30-89"

sticky_bucket(max_d) ==
    IF max_d >= 90 * Scale THEN "90+"
    ELSE IF max_d >= 30 * Scale THEN "30-89"
    ELSE "0-29"

total_cumulative_dpd(active) == ToString(IntOf(SumSeq(active)))

MetricsColumns == <<"Metric", "Value", "Importance">>
DfColumns == <<"Month", "DPD", "Status", "Rolling_3M">>

analyze_loan(r, m) ==
    LET dpd == SelectMonths(r, m)
        first_idx == first_valid_index(dpd, m)
    IN  IF first_idx = None
        THEN [df |-> EmptyDataFrame, metrics |-> EmptyDataFrame]
        ELSE
        LET sp == start_pos(dpd, m)
            ep == end_pos(dpd, m)
            active == ActiveSeries(r, m)
            filled == fillna0(dpd)
            max_d == MaxSeq(active)
        IN  [df |->
                [columns |-> DfColumns,
                 data |-> [Month |-> m,
                           DPD |-> filled,
                           Status |-> status(sp, ep, Len(m)),
                           Rolling_3M |-> rolling3(filled)]],
             metrics |->
                [columns |-> MetricsColumns,
                 data |-> <<
                    <<"Loan Status", loan_status(ep, Len(m)), "Current State">>,
                    <<"Active Tenure", active_tenure(active), "Loan Age">>,
                    <<"Delinquency Density", delinquency_density(active), "Frequency">>,
                    <<"Maximum DPD", maximum_dpd(max_d), "Peak Risk">>,
                    <<"Sticky Bucket", sticky_bucket(max_d), "Risk Tier">>,
                    <<"Total Cumulative DPD", total_cumulative_dpd(active), "Risk Volume">>
                 >>]]

---------------------------------------------------------------------------
(* Spec: one call of analyze_loan on a row of up to MaxMonths month columns *)

Row(cells) == [code |-> "A1", sanctioned |-> 0, balance |-> 0, cells |-> cells]

Rows == {Row(c) : c \in UNION {[1..n -> Cells] : n \in 0..MaxMonths}}

IdleAnalysis ==
    /\ row = Row(<< >>)
    /\ months = << >>
    /\ arg = <<row, months>>
    /\ df = EmptyDataFrame
    /\ metrics = EmptyDataFrame
IdleHistory == prev = << >>
IdleDensity == tenure = 0 /\ delinquent = 0 /\ density = -1
IdleTier == peak = 0 /\ bucket = "" /\ classified = << >>
NoRun == [event |-> "none", after |-> "none", u |-> "", p |-> "", flag |-> FALSE,
          main |-> FALSE, login |-> FALSE, err |-> FALSE]
IdleAuth ==
    /\ session_state = << >>
    /\ username_input = ""
    /\ password_input = ""
    /\ run = NoRun
IdleBatch ==
    /\ raw_data = << >>
    /\ codes = << >>
    /\ pos = 0
    /\ sheets = << >>
    /\ story = << >>
    /\ error = ""
    /\ analysed = << >>

\* The caller holds a row and the months index, about to call.
Calling(r) ==
    /\ pc = "call"
    /\ row = r
    /\ months = MonthIndex(Len(r.cells))
    /\ arg = <<row, months>>
    /\ df = EmptyDataFrame
    /\ metrics = EmptyDataFrame

\* Slip: the missing cells of the caller's row are filled in place.
AnalyzeInPlace ==
    /\ pc = "call"
    /\ LET res == analyze_loan(row, months)
       IN  /\ df' = res.df
           /\ metrics' = res.metrics
    /\ row' = [row EXCEPT !.cells = fillna0(@)]
    /\ pc' = "return"
    /\ UNCHANGED <<months, arg, prev, densityVars, tierVars, batchVars, authVars>>

\* df, metrics_df = analyze_loan(row, months).  The call works on copies
\* (row[months].astype(object), fillna, iloc) and assigns to neither
\* argument.
Analyze ==
    /\ pc = "call"
    /\ LET res == analyze_loan(row, months)
       IN  /\ df' = res.df
           /\ metrics' = res.metrics
    /\ pc' = "return"
    /\ UNCHANGED <<row, months, arg, prev, densityVars, tierVars, batchVars, authVars>>

Init ==
    /\ \E r \in Rows : Calling(r)
    /\ IdleHistory
    /\ IdleDensity
    /\ IdleTier
    /\ IdleBatch
    /\ IdleAuth

Next == Analyze

Spec == Init /\ [][Next]_vars

---------------------------------------------------------------------------
(* SpecHistory: a caller that calls analyze_loan again and again, on the    *)
(* same row, on the row with a missing month put before or after it, on the *)
(* row with its last cell changed or dropped; rows of up to HistMonths      *)
(* month columns                                                            *)

\* missing, 0 days, 30 days
HistCells == {Absent, 0, 30 * Scale}

HistRows == {Row(c) : c \in UNION {[1..n -> HistCells] : n \in 0..HistMonths}}

\* History: the call just made differs from the remembered one.
Noted(r) ==
    IF prev = << >> THEN prev
    ELSE <<[prev[1] EXCEPT !.others = @ \/ r # prev[1].row]>>

\* Slip: the result is kept between calls and reused whenever the months
\* index is the one of the call before.
ReanalyzeMemo(r) ==
    LET m == MonthIndex(Len(r.cells))
        res == analyze_loan(r, m)
    IN  /\ pc = "return"
        /\ row' = r
        /\ months' = m
        /\ arg' = <<r, m>>
        /\ df' = IF m = months THEN df ELSE res.df
        /\ metrics' = IF m = months THEN metrics ELSE res.metrics
        /\ prev' = Noted(r)
        /\ UNCHANGED <<pc, densityVars, tierVars, batchVars, authVars>>

\* row = r; df, metrics_df = analyze_loan(row, months): a further call.
\* analyze_loan reads its two arguments and nothing else.
Reanalyze(r) ==
    LET m == MonthIndex(Len(r.cells))
        res == analyze_loan(r, m)
    IN  /\ pc = "return"
        /\ row' = r
        /\ months' = m
        /\ arg' = <<r, m>>
        /\ df' = res.df
        /\ metrics' = res.metrics
        /\ prev' = Noted(r)
        /\ UNCHANGED <<pc, densityVars, tierVars, batchVars, authVars>>

AnalyzeAgain == Reanalyze(row)

AnalyzePrepended ==
    /\ Len(row.cells) < HistMonths
    /\ Reanalyze(Row(<<Absent>> \o row.cells))

AnalyzeAppended ==
    /\ Len(row.cells) < HistMonths
    /\ Reanalyze(Row(row.cells \o <<Absent>>))

\* the next file has another value in the last month
AnalyzeEdited ==
    /\ Len(row.cells) > 0
    /\ \E v \in HistCells \ {row.cells[Len(row.cells)]} :
        Reanalyze(Row([row.cells EXCEPT ![Len(row.cells)] = v]))

\* the next file lacks the last month
AnalyzeShorter ==
    /\ Len(row.cells) > 0
    /\ Reanalyze(Row(SubSeq(row.cells, 1, Len(row.cells) - 1)))

\* History: keep the call just made, with what it returned.
Remember ==
    /\ pc = "return"
    /\ prev' = <<[row |-> arg[1], months |-> arg[2], df |-> df,
                  metrics |-> metrics, others |-> FALSE]>>
    /\ UNCHANGED <<row, months, arg, df, metrics, pc, densityVars, tierVars, batchVars, authVars>>

InitHistory ==
    /\ \E r \in HistRows : Calling(r)
    /\ IdleHistory
    /\ IdleDensity
    /\ IdleTier
    /\ IdleBatch
    /\ IdleAuth

NextHistory ==
    \/ Analyze
    \/ AnalyzeAgain
    \/ AnalyzePrepended
    \/ AnalyzeAppended
    \/ AnalyzeEdited
    \/ AnalyzeShorter
    \/ Remember

SpecHistory == InitHistory /\ [][NextHistory]_vars

---------------------------------------------------------------------------
(* SpecTier: the Sticky Bucket expression of analyze_loan, applied to every *)
(* peak DPD from 0 to MaxDays days in steps of 1/Scale day                  *)

Classify ==
    /\ pc = "call"
    /\ bucket' = sticky_bucket(peak)
    /\ pc' = "return"
    /\ UNCHANGED <<row, months, arg, df, metrics, prev, peak, classified,
                   densityVars, batchVars, authVars>>

\* The loop over the accounts goes on to the next account, whose peak is p:
\* the same expression, on the new max_d.  History: the classification
\* before it is kept.
ClassifyAnother(p) ==
    /\ pc = "return"
    /\ classified = << >>
    /\ classified' = <<[peak |-> peak, bucket |-> bucket]>>
    /\ peak' = p
    /\ bucket' = sticky_bucket(p)
    /\ UNCHANGED <<row, months, arg, df, metrics, prev, pc, densityVars, batchVars, authVars>>

ClassifyNextAccount == \E p \in 0..(MaxDays * Scale) : ClassifyAnother(p)

InitTier ==
    /\ peak \in 0..(MaxDays * Scale)
    /\ bucket = ""
    /\ classified = << >>
    /\ pc = "call"
    /\ IdleAnalysis
    /\ IdleHistory
    /\ IdleDensity
    /\ IdleBatch
    /\ IdleAuth

NextTier ==
    \/ Classify
    \/ ClassifyNextAccount

SpecTier == InitTier /\ [][NextTier]_vars

---------------------------------------------------------------------------
(* SpecDensity: the Delinquency Density expression of analyze_loan, applied *)
(* to every count of delinquent months of every active window of up to      *)
(* MaxTenure months                                                         *)

FormatDensity ==
    /\ pc = "call"
    /\ density' \in PercentOutcomes(delinquent, tenure)
    /\ pc' = "return"
    /\ UNCHANGED <<row, months, arg, df, metrics, prev, tenure, delinquent, tierVars,
                   batchVars, authVars>>

InitDensity ==
    /\ tenure \in 1..MaxTenure
    /\ delinquent \in 0..tenure
    /\ density = -1
    /\ pc = "call"
    /\ IdleAnalysis
    /\ IdleHistory
    /\ IdleTier
    /\ IdleBatch
    /\ IdleAuth

NextDensity == FormatDensity

SpecDensity == InitDensity /\ [][NextDensity]_vars

---------------------------------------------------------------------------
(* SpecBatch: one run of the script on an uploaded file of up to            *)
(* MaxAccounts rows with two month columns                                  *)

\* An account code: the first 31 characters of its string form, and the rest
Code(first31, rest) == [first31 |-> first31, rest |-> rest]

BatchCodes == {Code("A", ""), Code("B", ""), Code("A", "x")}

\* never disbursed; active, ends delinquent; settled with a gap before it
BatchSeries == {<<Absent, Absent>>, <<0, 30 * Scale>>, <<30 * Scale, Absent>>}

BatchRows ==
    {[code |-> c, sanctioned |-> 0, balance |-> 0, cells |-> x] :
        c \in BatchCodes, x \in BatchSeries}

Uploads == UNION {[1..n -> BatchRows] : n \in 1..MaxAccounts}

\* Series.unique(): the distinct values in order of first appearance
RECURSIVE unique(_)
unique(s) ==
    IF s = << >> THEN << >>
    ELSE LET front == unique(SubSeq(s, 1, Len(s) - 1))
             x == s[Len(s)]
         IN  IF \E k \in 1..Len(front) : front[k] = x THEN front
             ELSE Append(front, x)

\* raw_data[raw_data.iloc[:, 0] == code].iloc[0]
first_row(data, code) ==
    data[CHOOSE k \in 1..Len(data) :
            data[k].code = code /\ \A j \in 1..(k - 1) : data[j].code # code]

\* str(code)[:31]
sheet_name(code) == code.first31

\* df.to_excel(writer, sheet_name=...): the table's cells go to the sheet of
\* that name, a new sheet when the writer has none; a table without cells
\* leaves the cells of a sheet as they are
to_excel(book, name, table) ==
    IF \E k \in 1..Len(book) : book[k][1] = name
    THEN [k \in 1..Len(book) |->
            IF book[k][1] = name /\ table # EmptyDataFrame
            THEN <<name, table>> ELSE book[k]]
    ELSE Append(book, <<name, table>>)

\* build_pdf(story, code, row, df, metrics_df, styles): the heading, the
\* metrics table and the chart of one account
report_block(code, table, m) == [code |-> code, metrics |-> m.data, chart |-> table]

\* One pass of the loop over the accounts.  The lookup of the Loan Status
\* row, metrics_df[metrics_df['Metric'] == 'Loan Status'], raises KeyError
\* for a table without a Metric column; nothing catches it, the run ends.
ProcessAccount ==
    /\ pc = "loop"
    /\ pos < Len(codes)
    /\ LET code == codes[pos + 1]
           r == first_row(raw_data, code)
           res == analyze_loan(r, months)
           hasMetric == \E k \in 1..Len(res.metrics.columns) :
                            res.metrics.columns[k] = "Metric"
       IN  /\ row' = r
           /\ arg' = <<r, months>>
           /\ df' = res.df
           /\ metrics' = res.metrics
           /\ sheets' = to_excel(sheets, sheet_name(code), res.df)
           /\ analysed' = Append(analysed, [code |-> code, row |-> r])
           /\ IF hasMetric
              THEN /\ story' = Append(story, report_block(code, res.df, res.metrics))
                   /\ pos' = pos + 1
                   /\ UNCHANGED <<pc, error>>
              ELSE /\ pc' = "error"
                   /\ error' = "KeyError: 'Metric'"
                   /\ UNCHANGED <<story, pos>>
    /\ UNCHANGED <<months, prev, raw_data, codes, densityVars, tierVars, authVars>>

\* After the loop: doc.build(story), the writer is closed, the two bulk
\* downloads are offered.
FinishBatch ==
    /\ pc = "loop"
    /\ pos = Len(codes)
    /\ pc' = "done"
    /\ UNCHANGED <<row, months, arg, df, metrics, prev, densityVars, tierVars,
                   batchVars, authVars>>

InitBatch ==
    /\ raw_data \in Uploads
    /\ codes = unique([k \in 1..Len(raw_data) |-> raw_data[k].code])
    /\ months = MonthIndex(2)
    /\ pos = 0
    /\ sheets = << >>
    /\ story = << >>
    /\ error = ""
    /\ analysed = << >>
    /\ pc = "loop"
    /\ row = Row(<< >>)
    /\ arg = <<row, months>>
    /\ df = EmptyDataFrame
    /\ metrics = EmptyDataFrame
    /\ IdleHistory
    /\ IdleDensity
    /\ IdleTier
    /\ IdleAuth

NextBatch ==
    \/ ProcessAccount
    \/ FinishBatch

SpecBatch == InitBatch /\ [][NextBatch]_vars

---------------------------------------------------------------------------
(* SpecAuth: one browser session of the script.  Every user action on a     *)
(* widget makes Streamlit run the script from its first line with the       *)
(* session's st.session_state; st.rerun() ends the run and queues another.  *)

\* st.secrets["passwords"]
Passwords == [alice |-> "pw1", bob |-> "pw2"]

\* what a user can type: nothing, a configured name or password, the same
\* in other letters, an unknown one
TypedNames == {"", "alice", "bob", "Alice", "eve"}
TypedPasswords == {"", "pw1", "pw2", "PW1", "guess"}

\* Slip: the password is looked for among all the stored passwords.
credentials_ok_any(u, p) ==
    u \in DOMAIN Passwords /\ \E v \in DOMAIN Passwords : p = Passwords[v]

\* u in st.secrets["passwords"] and p == st.secrets["passwords"][u]
credentials_ok(u, p) == u \in DOMAIN Passwords /\ p = Passwords[u]

\* check_password() on session state ss, with the values u, p of the text
\* inputs and whether the run was caused by a click on Sign In.  ret is the
\* value returned; rerun: st.rerun() ended the run before a return.
check_password(ss, u, p, clicked) ==
    LET ss1 == IF "password_correct" \in DOMAIN ss THEN ss
               ELSE ss @@ ("password_correct" :> FALSE)
    IN  IF ss1["password_correct"]
        THEN [ret |-> TRUE, ss |-> ss1, login |-> FALSE, err |-> FALSE,
              rerun |-> FALSE]
        ELSE IF clicked /\ credentials_ok(u, p)
        THEN [ret |-> FALSE, ss |-> [ss1 EXCEPT !["password_correct"] = TRUE],
              login |-> TRUE, err |-> FALSE, rerun |-> TRUE]
        ELSE [ret |-> FALSE, ss |-> ss1, login |-> TRUE, err |-> clicked,
              rerun |-> FALSE]

\* Slip: Logout asks for the rerun and leaves the session state as it is.
main_interface_keep(ss, logout) ==
    IF logout THEN [ss |-> ss, rerun |-> TRUE]
    ELSE [ss |-> ss, rerun |-> FALSE]

\* The body of if check_password(): as far as the session is concerned: a
\* click on Logout clears the session state and asks for a rerun.
main_interface(ss, logout) ==
    IF logout THEN [ss |-> << >>, rerun |-> TRUE]
    ELSE [ss |-> ss, rerun |-> FALSE]

\* session_state holds password_correct, and it is True
Flag(ss) == "password_correct" \in DOMAIN ss /\ ss["password_correct"]

\* History: what a run with the text inputs at u, p did.
RunRecord(event, u, p, c) ==
    [event |-> event, after |-> run.event, u |-> u, p |-> p,
     flag |-> Flag(session_state), main |-> c.ret, login |-> c.login,
     err |-> c.err]

\* One run of the script, caused by event.
Script(event) ==
    LET c == check_password(session_state, username_input, password_input,
                            event = "signin")
        m == IF c.ret THEN main_interface(c.ss, event = "logout")
             ELSE [ss |-> c.ss, rerun |-> c.rerun]
    IN  /\ session_state' = m.ss
        /\ run' = RunRecord(event, username_input, password_input, c)
        /\ pc' = IF m.rerun THEN "run" ELSE "idle"

OtherVars == <<row, months, arg, df, metrics, prev, densityVars, tierVars, batchVars>>

\* The first run of the session, or the run st.rerun() asked for.  It
\* draws a page that the run before it did not draw: the text inputs of a
\* login page drawn anew are empty.
RunScript ==
    /\ pc = "run"
    /\ Script("rerun")
    /\ username_input' = ""
    /\ password_input' = ""
    /\ UNCHANGED OtherVars

\* The user changes the Username text input of the login page.
TypeUsername ==
    /\ pc = "idle"
    /\ run.login
    /\ \E u \in TypedNames \ {username_input} :
         /\ username_input' = u
         /\ LET c == check_password(session_state, u, password_input, FALSE)
            IN  /\ session_state' = c.ss
                /\ run' = RunRecord("type", u, password_input, c)
    /\ UNCHANGED <<password_input, pc, OtherVars>>

\* The user changes the Password text input of the login page.
TypePassword ==
    /\ pc = "idle"
    /\ run.login
    /\ \E p \in TypedPasswords \ {password_input} :
         /\ password_input' = p
         /\ LET c == check_password(session_state, username_input, p, FALSE)
            IN  /\ session_state' = c.ss
                /\ run' = RunRecord("type", username_input, p, c)
    /\ UNCHANGED <<username_input, pc, OtherVars>>

\* The user clicks Sign In Securely on the login page.
ClickSignIn ==
    /\ pc = "idle"
    /\ run.login
    /\ Script("signin")
    /\ UNCHANGED <<username_input, password_input, OtherVars>>

\* The user clicks Logout in the sidebar of the main interface.
ClickLogout ==
    /\ pc = "idle"
    /\ run.main
    /\ Script("logout")
    /\ UNCHANGED <<username_input, password_input, OtherVars>>

\* The user uses another widget of the main interface: the file uploader,
\* a download button.
UseMainInterface ==
    /\ pc = "idle"
    /\ run.main
    /\ Script("widget")
    /\ UNCHANGED <<username_input, password_input, OtherVars>>

InitAuth ==
    /\ session_state = << >>
    /\ username_input = ""
    /\ password_input = ""
    /\ run = NoRun
    /\ pc = "run"
    /\ IdleAnalysis
    /\ IdleHistory
    /\ IdleDensity
    /\ IdleTier
    /\ IdleBatch

NextAuth ==
    \/ RunScript
    \/ TypeUsername
    \/ TypePassword
    \/ ClickSignIn
    \/ ClickLogout
    \/ UseMainInterface

\* A run that st.rerun() asked for does take place.
SpecAuth == InitAuth /\ [][NextAuth]_vars /\ WF_vars(RunScript)

---------------------------------------------------------------------------
(* Vocabulary of the claims, stated on the input row alone *)

Returned == pc = "return"

InputCells == arg[1].cells

HasObservation == \E k \in 1..Len(InputCells) : InputCells[k] # Absent

\* 0-based positions of the first and the last month with an observation
firstPos ==
    CHOOSE p \in 0..(Len(InputCells) - 1) :
        /\ InputCells[p + 1] # Absent
        /\ \A q \in 0..(p - 1) : InputCells[q + 1] = Absent

lastPos ==
    CHOOSE p \in 0..(Len(InputCells) - 1) :
        /\ InputCells[p + 1] # Absent
        /\ \A q \in (p + 1)..(Len(InputCells) - 1) : InputCells[q + 1] = Absent

Profiled == Returned /\ HasObservation

MetricValue(name) ==
    LET k == CHOOSE j \in 1..Len(metrics.data) : metrics.data[j][1] = name
    IN  metrics.data[k][2]

\* The decimal numeral of v/Scale days: "30" for 30 days, "30.5" for 30.5
DaysString(v) ==
    IF v % Scale = 0 THEN ToString(v \div Scale)
    ELSE ToString(v \div Scale) \o "." \o ToString((10 * (v % Scale)) \div Scale)

---------------------------------------------------------------------------
(* C1 *)

\* C1: for a series with an observation there is one Status label per month,
\* months before firstPos are "Not Disbursed", months firstPos..lastPos are
\* "Active", months after lastPos are "Settled".
C1_StatusPartition ==
    Profiled =>
        /\ Len(df.data.Status) = Len(months)
        /\ \A p \in 0..(Len(months) - 1) :
             df.data.Status[p + 1] =
                IF p < firstPos THEN "Not Disbursed"
                ELSE IF p <= lastPos THEN "Active"
                ELSE "Settled"

\* A series with all three runs has been analysed.
C1_Witness ==
    /\ Profiled
    /\ 0 < firstPos
    /\ firstPos < lastPos
    /\ lastPos < Len(months) - 1

---------------------------------------------------------------------------
(* C2 *)

\* C2: for a series with an observation ActiveSeries has lastPos - firstPos + 1
\* >= 1 values (the length Active Tenure reports), the k-th being the DPD at
\* firstPos + k when that cell is present and 0 when it is missing.
C2_ActiveSeries ==
    Profiled =>
        LET a == ActiveSeries(row, months)
        IN  /\ Len(a) = lastPos - firstPos + 1
            /\ Len(a) >= 1
            /\ MetricValue("Active Tenure") = ToString(lastPos - firstPos + 1) \o " Months"
            /\ \A k \in 0..(Len(a) - 1) :
                 a[k + 1] = IF InputCells[firstPos + k + 1] = Absent THEN 0
                            ELSE InputCells[firstPos + k + 1]

\* A series with a gap inside its active window has been analysed.
C2_Witness ==
    /\ Profiled
    /\ \E p \in (firstPos + 1)..(lastPos - 1) : InputCells[p + 1] = Absent
    /\ \E p \in firstPos..lastPos : InputCells[p + 1] > 0

---------------------------------------------------------------------------
(* C5 *)

\* C5: for a series with an observation Loan Status is "Active" iff lastPos
\* is the last month and "Settled" otherwise, i.e. "Settled" iff some month
\* is labelled "Settled".
C5_LoanStatus ==
    Profiled =>
        /\ MetricValue("Loan Status") \in {"Active", "Settled"}
        /\ (MetricValue("Loan Status") = "Active") <=> (lastPos = Len(months) - 1)
        /\ (MetricValue("Loan Status") = "Settled") <=>
              (\E k \in 1..Len(df.data.Status) : df.data.Status[k] = "Settled")

\* Both outcomes: this state is a settled loan ...
C5_Witness ==
    /\ Profiled
    /\ lastPos < Len(months) - 1
    /\ MetricValue("Loan Status") = "Settled"

---------------------------------------------------------------------------
(* C7 *)

\* C7: for a series with an observation the reported Total Cumulative DPD
\* is the sum of the ActiveSeries values.
C7_TotalIsSum ==
    Profiled =>
        MetricValue("Total Cumulative DPD") = DaysString(SumSeq(ActiveSeries(row, months)))

---------------------------------------------------------------------------
(* C10 *)

\* C10: after a call, with a present or an all-absent series, the row
\* (missing cells still missing) and the months index are what they were
\* when the call began.
C10_InputUnchanged ==
    Returned => row = arg[1] /\ months = arg[2]

\* A call on a row with a missing cell has returned.
C10_Witness ==
    /\ Returned
    /\ HasObservation
    /\ \E k \in 1..Len(InputCells) : InputCells[k] = Absent

---------------------------------------------------------------------------
(* C4 *)

\* The 4-tier table: the highest threshold reached decides.
FourTier(max_d) ==
    IF max_d >= 90 * Scale THEN "90+"
    ELSE IF max_d >= 60 * Scale THEN "60+"
    ELSE IF max_d >= 30 * Scale THEN "30+"
    ELSE "Current"

\* C4 as claimed: Sticky Bucket follows the 4-tier table "90+", "60+", "30+",
\* "Current".
C4_FourTierTable == Returned => bucket = FourTier(peak)

\* C4 as amended: Sticky Bucket follows the 3-tier table: a peak of at least
\* 90 days gives "90+", of at least 30 and below 90 days "30-89", below 30
\* days "0-29"; 95 days gives "90+", 45 days "30-89", 10 days "0-29".
C4_ThreeTierTable ==
    Returned =>
        /\ (peak >= 90 * Scale) => bucket = "90+"
        /\ (30 * Scale <= peak /\ peak < 90 * Scale) => bucket = "30-89"
        /\ (peak < 30 * Scale) => bucket = "0-29"
        /\ (peak = 95 * Scale) => bucket = "90+"
        /\ (peak = 45 * Scale) => bucket = "30-89"
        /\ (peak = 10 * Scale) => bucket = "0-29"

\* A peak of 45 days has been classified.
C4_Witness == Returned /\ peak = 45 * Scale /\ bucket = "30-89"

---------------------------------------------------------------------------
(* C8 *)

Abs(x) == IF x < 0 THEN -x ELSE x

\* density/TenthsInOne * tenure, rounded to the nearest integer, can be k
\* (a product half way between two integers rounds to either)
RoundsTo(k) == 2 * Abs(density * tenure - TenthsInOne * k) <= TenthsInOne

\* C8 as claimed: the reported density times len(ActiveSeries), rounded, is
\* the number of months with DPD > 0.
C8_DensityTimesLength == Returned => RoundsTo(delinquent)

\* C8 as amended: the same for an ActiveSeries of at most 1000 months, where
\* the product also rounds to no other integer.
C8_DensityTimesLengthUpTo1000 ==
    (Returned /\ tenure <= TenthsInOne) =>
        /\ RoundsTo(delinquent)
        /\ \A k \in {delinquent - 1, delinquent + 1} : ~RoundsTo(k)

\* A density that had to be rounded has been reported: 1 month in 3, 33.3%.
C8_Witness == Returned /\ tenure = 3 /\ delinquent = 1 /\ density = 333

---------------------------------------------------------------------------
(* C6 *)

Remembered == prev # << >> /\ Returned

\* The row analysed last is the remembered row with a missing months put
\* before it and b after it.
Padded(a, b) ==
    /\ Remembered
    /\ a >= 0 /\ b >= 0
    /\ InputCells = Repeat(Absent, a) \o prev[1].row.cells \o Repeat(Absent, b)

MetricIn(table, name) ==
    LET k == CHOOSE j \in 1..Len(table.data) : table.data[j][1] = name
    IN  table.data[k][2]

SameStatistics ==
    \A name \in {"Active Tenure", "Delinquency Density", "Maximum DPD",
                 "Sticky Bucket", "Total Cumulative DPD"} :
        MetricIn(metrics, name) = MetricIn(prev[1].metrics, name)

\* 1-based rows of the remembered table that are labelled Active
ActiveRows == {j \in 1..Len(prev[1].months) : prev[1].df.data.Status[j] = "Active"}

SameActiveColumn(col, rows, a) ==
    \A j \in rows : df.data[col][j + a] = prev[1].df.data[col][j]

Paddings == {<<a, b>> \in (0..HistMonths) \X (0..HistMonths) : a + b <= HistMonths}

\* C6 as claimed: missing months put before firstPos or after lastPos leave
\* Active Tenure, Delinquency Density, Maximum DPD, Sticky Bucket, Total
\* Cumulative DPD and the DPD and Rolling_3M of every Active month unchanged.
C6_PaddingChangesNothing ==
    \A ab \in Paddings :
        (Padded(ab[1], ab[2]) /\ prev[1].df # EmptyDataFrame) =>
            /\ SameStatistics
            /\ SameActiveColumn("DPD", ActiveRows, ab[1])
            /\ SameActiveColumn("Rolling_3M", ActiveRows, ab[1])

\* C6 as amended: they leave the five statistics and the DPD of every Active
\* month unchanged, and the Rolling_3M of every Active month that has two
\* months of the series before it; months put after lastPos alone leave the
\* Rolling_3M of every Active month unchanged.
C6_PaddingChangesNoStatistic ==
    \A ab \in Paddings :
        (Padded(ab[1], ab[2]) /\ prev[1].df # EmptyDataFrame) =>
            /\ SameStatistics
            /\ SameActiveColumn("DPD", ActiveRows, ab[1])
            /\ SameActiveColumn("Rolling_3M", {j \in ActiveRows : j >= 3}, ab[1])
            /\ (ab[1] = 0) => SameActiveColumn("Rolling_3M", ActiveRows, 0)

\* A series with a delinquent month has been analysed, and then the same
\* series with a missing month before it and one after it.
C6_Witness ==
    /\ \E a \in 1..HistMonths, b \in 1..HistMonths : Padded(a, b)
    /\ \E k \in 1..Len(prev[1].row.cells) : prev[1].row.cells[k] > 0

---------------------------------------------------------------------------
(* C9 *)

---------------------------------------------------------------------------
(* C3 *)

\* The loop has handled an account whose series has no observation.
EmptySeriesHandled ==
    /\ row.cells # << >>
    /\ \A k \in 1..Len(row.cells) : row.cells[k] = Absent

HasColumn(table, name) == \E k \in 1..Len(table.columns) : table.columns[k] = name

\* C3: for a series without any observation the whole series is labelled
\* Not Disbursed, a profile with Loan Status "NotDisbursed" and neutral
\* statistics is returned, and the batch run goes on without an error.
C3_EmptySeriesProfiled ==
    EmptySeriesHandled =>
        /\ HasColumn(df, "Status")
        /\ \A k \in 1..Len(months) : df.data.Status[k] = "Not Disbursed"
        /\ HasColumn(metrics, "Metric")
        /\ MetricValue("Loan Status") = "NotDisbursed"
        /\ pc # "error"
        /\ error = ""

---------------------------------------------------------------------------
(* C15 *)

\* The zero-filled DPD of the month at 0-based position p of the input row
ZeroFilled(p) == IF InputCells[p + 1] = Absent THEN 0 ELSE InputCells[p + 1]

\* C15: in the series table of a series with an observation the DPD column
\* is the whole zero-filled series, and three times the Rolling_3M of the row
\* at position p >= 2 is the sum of the DPD column over p-2, p-1 and p; the
\* rows at positions 0 and 1 have Rolling_3M 0.
C15_Rolling3M ==
    Profiled =>
        /\ Len(df.data.Rolling_3M) = Len(months)
        /\ \A p \in 0..(Len(months) - 1) :
             /\ df.data.DPD[p + 1] = ZeroFilled(p)
             /\ df.data.Rolling_3M[p + 1] =
                  IF p < 2 THEN 0
                  ELSE ZeroFilled(p - 2) + ZeroFilled(p - 1) + ZeroFilled(p)

\* A series whose first two months are delinquent and whose third month is
\* missing inside the active window has been analysed: rows 0 and 1 carry 0,
\* row 2 a mean above 0.
C15_Witness ==
    /\ Profiled
    /\ Len(months) >= 4
    /\ InputCells[1] > 0
    /\ InputCells[2] > 0
    /\ InputCells[3] = Absent
    /\ InputCells[4] # Absent
    /\ df.data.Rolling_3M[3] > 0

---------------------------------------------------------------------------
(* C16 *)

\* 1-based rows of the series table with the given Status label
RowsLabelled(label) == {j \in 1..Len(months) : df.data.Status[j] = label}

\* The DPD values of the Active rows, in order
ActiveColumn ==
    [k \in 1..Cardinality(RowsLabelled("Active")) |->
        df.data.DPD[Cardinality(RowsLabelled("Not Disbursed")) + k]]

\* C16: in the series table of a series with an observation every row
\* labelled Not Disbursed or Settled has DPD 0, the DPD values of the Active
\* rows in order are ActiveSeries, and the Maximum DPD metric is the largest
\* value of the DPD column.
C16_ColumnAgreesWithSegmentation ==
    Profiled =>
        /\ \A j \in RowsLabelled("Not Disbursed") \cup RowsLabelled("Settled") :
             df.data.DPD[j] = 0
        /\ ActiveColumn = ActiveSeries(row, months)
        /\ MetricValue("Maximum DPD") = DaysString(MaxSeq(df.data.DPD)) \o " Days"

\* The part of C16 on the segmentation alone.
C16_Segmentation ==
    Profiled =>
        /\ \A j \in RowsLabelled("Not Disbursed") \cup RowsLabelled("Settled") :
             df.data.DPD[j] = 0
        /\ ActiveColumn = ActiveSeries(row, months)

---------------------------------------------------------------------------
(* C14 *)

\* The tiers in order of severity
Severity(b) == IF b = "90+" THEN 2 ELSE IF b = "30-89" THEN 1 ELSE 0

\* The number of thresholds a peak reaches
ThresholdsReached(max_d) ==
    Cardinality({t \in {30 * Scale, 90 * Scale} : max_d >= t})

\* C14: of two classified peaks a <= b, the tier of b is at least as severe
\* as the tier of a; equal peaks get the same tier; the tier of a peak is
\* the one of the highest threshold it reaches.
C14_TierMonotonic ==
    (Returned /\ classified # << >>) =>
        /\ bucket \in {"0-29", "30-89", "90+"}
        /\ (classified[1].peak <= peak) =>
              Severity(classified[1].bucket) <= Severity(bucket)
        /\ (classified[1].peak = peak) => classified[1].bucket = bucket
        /\ Severity(bucket) = ThresholdsReached(peak)

\* A peak below 30 days and then a peak between 30 and 90 days have been
\* classified, and the tiers differ.
C14_Witness ==
    /\ Returned
    /\ classified # << >>
    /\ classified[1].peak < 30 * Scale
    /\ peak = 45 * Scale
    /\ Severity(classified[1].bucket) < Severity(bucket)

---------------------------------------------------------------------------
(* C17 *)

\* The last run was a click on Sign In with a configured username and the
\* password stored for it.
ValidSignIn(r) ==
    /\ r.event = "signin"
    /\ r.u \in DOMAIN Passwords
    /\ r.p = Passwords[r.u]

\* C17: a run executes the main interface only when password_correct is
\* True in the session state it starts with; the flag goes from not True to
\* True only in a run caused by a Sign In click with a configured username
\* and its stored password; a Sign In click with other credentials leaves
\* the flag False, shows the error and executes no main interface.
C17_OnlyValidSignInOpens ==
    /\ [](run.main => run.flag)
    /\ [][(Flag(session_state') /\ ~Flag(session_state)) => ValidSignIn(run')]_vars
    /\ []((run.event = "signin" /\ ~ValidSignIn(run)) =>
            /\ "password_correct" \in DOMAIN session_state
            /\ session_state["password_correct"] = FALSE
            /\ run.err
            /\ ~run.main)

\* Valid credentials have been submitted, and the run after that click has
\* executed the main interface.
C17_Witness ==
    /\ run.main
    /\ run.event = "rerun"
    /\ run.after = "signin"
    /\ Flag(session_state)

---------------------------------------------------------------------------
(* C18 *)

\* C18: with password_correct True, every run not caused by a Logout click
\* executes the main interface, draws no login page and leaves the flag
\* True; a run caused by a Logout click leaves the session state empty and
\* asks for a rerun; the run after it draws the login page and executes no
\* main interface, and that run does take place; with the flag not True no
\* run executes the main interface, and the flag stays not True, unless the
\* run is a Sign In click with valid credentials.
C18_SessionUntilLogout ==
    /\ [][(Flag(session_state) /\ run'.event # "logout") =>
            (run'.main /\ ~run'.login /\ Flag(session_state'))]_vars
    /\ [][(run'.event = "logout") =>
            (run.main /\ session_state' = << >> /\ pc' = "run")]_vars
    /\ [][(run.event = "logout") =>
            (run'.event = "rerun" /\ run'.login /\ ~run'.main)]_vars
    /\ [][~Flag(session_state) =>
            (~run'.main /\ (Flag(session_state') => ValidSignIn(run')))]_vars
    /\ (run.event = "logout") ~> (run.after = "logout" /\ run.login)

\* After a sign-in and a Logout click the login page is drawn again.
C18_Witness ==
    /\ run.event = "rerun"
    /\ run.after = "logout"
    /\ run.login
    /\ ~run.main
    /\ ~Flag(session_state)

---------------------------------------------------------------------------
(* Vocabulary of the batch claims *)

\* The run on the uploaded file is over: the bulk document was built, or an
\* exception ended the run.
Ended == pc \in {"done", "error"}

\* 1-based position of the first row of the file that carries the code
FirstCarrying(code) ==
    CHOOSE k \in 1..Len(raw_data) :
        /\ raw_data[k].code = code
        /\ \A j \in 1..(k - 1) : raw_data[j].code # code

\* The distinct codes of the file, as the set of rows that carry a code no
\* row before them carries
FirstRows == {k \in 1..Len(raw_data) : \A j \in 1..(k - 1) : raw_data[j].code # raw_data[k].code}

---------------------------------------------------------------------------
(* C20 *)

\* C20: the sheet names written for any two distinct codes of the batch
\* are distinct, and when the run is over the workbook has, for every
\* account reported, a sheet of its own with that account's series table.
C20_OwnSheetPerCode ==
    /\ \A i, j \in 1..Len(analysed) :
         i # j => sheet_name(analysed[i].code) # sheet_name(analysed[j].code)
    /\ Ended =>
         /\ Len(sheets) = Len(analysed)
         /\ \A i \in 1..Len(story) : \E k \in 1..Len(sheets) :
              sheets[k] = <<sheet_name(story[i].code), story[i].chart>>

---------------------------------------------------------------------------
(* C19 *)

\* C19: when the run is over every distinct code of the file has been
\* analysed once, on the first row that carries it, and the bulk story
\* holds one report block per distinct code, in the order of their first
\* appearance; the bulk document is built with that story.
C19_OncePerCodeInOrder ==
    Ended =>
        /\ pc = "done"
        /\ Len(analysed) = Cardinality(FirstRows)
        /\ Len(story) = Cardinality(FirstRows)
        /\ \A i \in 1..Len(analysed) :
             /\ analysed[i].row = raw_data[FirstCarrying(analysed[i].code)]
             /\ story[i].code = analysed[i].code
             /\ \A j \in 1..Len(analysed) :
                  i < j => FirstCarrying(analysed[i].code) < FirstCarrying(analysed[j].code)

\* The same for a file in which every account analysed has an observation.
C19_OncePerCodeInOrderWhenObserved ==
    (Ended /\ \A k \in FirstRows : HasValid(raw_data[k].cells)) =>
        /\ pc = "done"
        /\ Len(analysed) = Cardinality(FirstRows)
        /\ Len(story) = Cardinality(FirstRows)
        /\ \A i \in 1..Len(analysed) :
             /\ analysed[i].row = raw_data[FirstCarrying(analysed[i].code)]
             /\ story[i].code = analysed[i].code
             /\ \A j \in 1..Len(analysed) :
                  i < j => FirstCarrying(analysed[i].code) < FirstCarrying(analysed[j].code)

---------------------------------------------------------------------------
(* C11 *)

\* What the account of row r gets when it is the only account of a file
Alone(r) == analyze_loan(r, months)

\* C11: when the run is over, every account of the file whose own series
\* has an observation has its report block, whatever the other accounts of
\* the file are and wherever they stand, and the block holds the metrics and
\* the series table that the account's row gives when analysed alone.
C11_AccountsIndependent ==
    Ended =>
        \A k \in FirstRows :
            HasValid(raw_data[k].cells) =>
                \E i \in 1..Len(story) :
                    /\ story[i].code = raw_data[k].code
                    /\ story[i].metrics = Alone(raw_data[k]).metrics.data
                    /\ story[i].chart = Alone(raw_data[k]).df

---------------------------------------------------------------------------
(* C12, C13: the cure and recurrence statistics, as the specification       *)
(* defines them on ActiveSeries a                                           *)

\* 1-based months at which a delinquent run begins
EpisodeStarts(a) == {k \in 1..Len(a) : a[k] > 0 /\ (k = 1 \/ a[k - 1] = 0)}

\* 1-based months at which a delinquent run has just ended: the hard cures
HardCures(a) == {k \in 2..Len(a) : a[k] = 0 /\ a[k - 1] > 0}

\* The number of consecutive delinquent months that end just before month k
RECURSIVE RunBefore(_, _)
RunBefore(a, k) == IF k = 1 \/ a[k - 1] = 0 THEN 0 ELSE 1 + RunBefore(a, k - 1)

\* The months of the lookahead window of a hard cure at month i
Lookahead(a, i) == {j \in (i + 1)..(i + 3) : j <= Len(a)}

SustainedCures(a) == {i \in HardCures(a) : \A j \in Lookahead(a, i) : a[j] = 0}

Recurrences(a) == {i \in HardCures(a) : \E j \in Lookahead(a, i) : a[j] > 0}

HasMetric(name) == \E j \in 1..Len(metrics.data) : metrics.data[j][1] = name

\* The profile reports the count n under the name
Reports(name, n) == HasMetric(name) /\ MetricValue(name) = ToString(n)

\* C12: the profile of a series with an observation reports Episodes, the
\* number of Current-to-Delinquent transitions of ActiveSeries (an open run
\* included), Hard Cures, the number of Delinquent-to-Current transitions,
\* and a Time-to-Cure per hard cure, the length of the run just ended; for
\* the series 0, 30, 0 that is Episodes 1, Hard Cures 1, Time-to-Cure 1.
C12_EpisodesAndCures ==
    Profiled =>
        LET a == ActiveSeries(row, months)
        IN  /\ Reports("Episodes", Cardinality(EpisodeStarts(a)))
            /\ Reports("Hard Cures", Cardinality(HardCures(a)))
            /\ HasMetric("Time-to-Cure")
            /\ HasMetric("Cure Rate")
            /\ MetricValue("Time-to-Cure") = [i \in HardCures(a) |-> RunBefore(a, i)]

\* C13: the profile of a series with an observation reports Sustained
\* Cures, the number of hard cures whose lookahead window, clipped to the
\* series, is all 0, and Recurrences, the number of those with a month above
\* 0 in the window, no hard cure counted in both, and a Recurrence Ratio.
C13_LookaheadOutcomes ==
    Profiled =>
        LET a == ActiveSeries(row, months)
        IN  /\ SustainedCures(a) \cap Recurrences(a) = {}
            /\ Reports("Sustained Cures", Cardinality(SustainedCures(a)))
            /\ Reports("Recurrences", Cardinality(Recurrences(a)))
            /\ HasMetric("Recurrence Ratio")

\* The profile of a series with an observation has the six statistics of
\* analyze_loan and no other.
SixMetrics ==
    Profiled =>
        {metrics.data[j][1] : j \in 1..Len(metrics.data)} =
            {"Loan Status", "Active Tenure", "Delinquency Density", "Maximum DPD",
             "Sticky Bucket", "Total Cumulative DPD"}

====
